---- MODULE Spec2Model ----
(***************************************************************************)
(* Model of wikipedia2phylo.py: the clade table locator (get_wiki_tree),   *)
(* the name matcher (find_matching_node) and the clade tree builder with   *)
(* its cross-page stitching (build_tree).                                  *)
(*                                                                         *)
(* Text is a sequence of one-character strings.  A parsed document is a    *)
(* forest of elements; document order is the preorder of that forest.      *)
(***************************************************************************)
EXTENDS Integers, Sequences, FiniteSets, TLC

(***************************************************************************)
(* Bounds of the model.                                                    *)
(***************************************************************************)
\* largest number of elements of a document handed to the locator
MaxElems == 4
\* largest number of nodes of a tree handed to the matcher
MaxNodes == 4
\* largest number of rows of the table handed to build_tree
MaxRows == 2
\* largest value of recurs, the depth budget of the stitching
MaxRecurs == 2

\* Python's None, for the variables that otherwise hold a natural number
None == 0 - 1

(***************************************************************************)
(* Text helpers (str methods used by the program).                         *)
(***************************************************************************)
Digits == {"0", "1", "2", "3"}

DigitVal(c) ==
  CASE c = "0" -> 0 [] c = "1" -> 1 [] c = "2" -> 2 [] c = "3" -> 3

\* int(s) for a string of decimal digits
RECURSIVE StrToInt(_)
StrToInt(s) ==
  IF s = <<>> THEN 0
  ELSE 10 * StrToInt(SubSeq(s, 1, Len(s) - 1)) + DigitVal(s[Len(s)])

\* str.isdigit(): non-empty and every character a digit
IsDigit(s) == s # <<>> /\ \A i \in 1..Len(s) : s[i] \in Digits

\* position of the last occurrence of character c in s, 0 when absent
LastPos(s, c) ==
  IF \E i \in 1..Len(s) : s[i] = c
  THEN CHOOSE i \in 1..Len(s) : s[i] = c /\ \A j \in (i+1)..Len(s) : s[j] # c
  ELSE 0

\* s.rsplit(c, 1)[-1]: what follows the last c, the whole string without c
RSplitLast(s, c) == SubSeq(s, LastPos(s, c) + 1, Len(s))

\* s.rpartition(c): (head, tail); head is '' when c is absent
RPartition(s, c) ==
  LET p == LastPos(s, c)
  IN  [head |-> IF p = 0 THEN <<>> ELSE SubSeq(s, 1, p - 1),
       tail |-> SubSeq(s, p + 1, Len(s))]

\* lines 48-51: the term without its '#k' suffix and the index, None without one
ParseTerm(t) ==
  IF IsDigit(RSplitLast(t, "#"))
  THEN [term |-> RPartition(t, "#").head,
        tree_index |-> StrToInt(RPartition(t, "#").tail)]
  ELSE [term |-> t, tree_index |-> None]

(***************************************************************************)
(* Documents: an element is [clade, kids]; clade marks <table class=clade>.*)
(***************************************************************************)
RECURSIVE Forests(_)
\* all forests of exactly n elements
Forests(n) ==
  IF n = 0 THEN {<<>>}
  ELSE UNION { { <<[clade |-> c, kids |-> k]>> \o rest :
                   c \in BOOLEAN, k \in Forests(m - 1), rest \in Forests(n - m) }
               : m \in 1..n }

Documents == UNION { Forests(n) : n \in 0..MaxElems }

RECURSIVE ForestSize(_)
ForestSize(f) ==
  IF f = <<>> THEN 0 ELSE 1 + ForestSize(Head(f).kids) + ForestSize(Tail(f))

RECURSIVE DocOrder(_)
\* the elements in document order, each with its number of descendants
DocOrder(f) ==
  IF f = <<>> THEN <<>>
  ELSE <<[clade |-> Head(f).clade, ndesc |-> ForestSize(Head(f).kids)]>>
         \o DocOrder(Head(f).kids) \o DocOrder(Tail(f))

\* soup.find / elem.findNext('table', class_='clade'): the first clade table
\* strictly after position pos in document order, None when there is none
FindNext(order, pos) ==
  IF \E i \in (pos + 1)..Len(order) : order[i].clade
  THEN CHOOSE i \in (pos + 1)..Len(order) :
         order[i].clade /\ \A j \in (pos + 1)..(i - 1) : ~order[j].clade
  ELSE None

RECURSIVE TopLevelFrom(_, _)
\* the positions of the clade tables of forest f that have no clade table
\* among their ancestors, f starting right after position base
TopLevelFrom(f, base) ==
  IF f = <<>> THEN <<>>
  ELSE (IF Head(f).clade THEN <<base + 1>>
        ELSE TopLevelFrom(Head(f).kids, base + 1))
       \o TopLevelFrom(Tail(f), base + 1 + ForestSize(Head(f).kids))

TopLevel(doc) == TopLevelFrom(doc, 0)

Terms ==
  {<<"a">>, <<"a", "#">>, <<"a", "#", "b">>, <<"a", "#", "1", "#", "2">>}
    \cup { <<"a", "#", d>> : d \in Digits }
    \cup { <<"a", "#", "0", d>> : d \in {"1", "2"} }

(***************************************************************************)
(* More text helpers: str.strip, str.split, case-insensitive search.       *)
(***************************************************************************)
UpperToLower ==
  ("A" :> "a") @@ ("B" :> "b") @@ ("F" :> "f") @@ ("H" :> "h") @@ ("Y" :> "y")

\* the lower-case form of a character (re.I compares characters by it)
Lower(c) == IF c \in DOMAIN UpperToLower THEN UpperToLower[c] ELSE c

RECURSIVE Strip(_)
\* str.strip(): leading and trailing blanks removed
Strip(s) ==
  IF s = <<>> THEN s
  ELSE IF Head(s) = " " THEN Strip(Tail(s))
  ELSE IF s[Len(s)] = " " THEN Strip(SubSeq(s, 1, Len(s) - 1))
  ELSE s

RECURSIVE Split(_, _)
\* s.split(c): always at least one piece, '' included
Split(s, c) ==
  IF \E i \in 1..Len(s) : s[i] = c
  THEN LET p == CHOOSE i \in 1..Len(s) : s[i] = c /\ \A j \in 1..(i - 1) : s[j] # c
       IN  <<SubSeq(s, 1, p - 1)>> \o Split(SubSeq(s, p + 1, Len(s)), c)
  ELSE <<s>>

\* pattern p occurs in name as a literal substring, letter case ignored
Contains(name, p) ==
  \E i \in 0..(Len(name) - Len(p)) :
     \A j \in 1..Len(p) : Lower(name[i + j]) = Lower(p[j])

\* line 121 and 123: re.compile('|'.join(re.escape(p) ...), re.I).search(name);
\* joining no pattern gives the empty expression, which matches every name
RegexSearch(patterns, name) ==
  IF patterns = <<>> THEN TRUE
  ELSE \E k \in 1..Len(patterns) : Contains(name, patterns[k])

(***************************************************************************)
(* Trees: a node is a record with name and children (and, when built by    *)
(* build_tree, its features).  A path is a sequence of child positions.    *)
(***************************************************************************)
\* F(x) with x evaluated once, before F is
Value(F(_), x) == CHOOSE y \in { F(v) : v \in {x} } : TRUE

RECURSIVE NodeAt(_, _)
NodeAt(tree, path) ==
  IF path = <<>> THEN tree ELSE NodeAt(tree.children[Head(path)], Tail(path))

ChildPaths(tree, path) ==
  [i \in 1..Len(NodeAt(tree, path).children) |-> Append(path, i)]

RECURSIVE PreOrderFrom(_, _)
\* depth-first order, a node before its children: the order levelorder is not
PreOrderFrom(tree, todo) ==
  IF todo = <<>> THEN <<>>
  ELSE <<Head(todo)>>
         \o Value(LAMBDA t : PreOrderFrom(tree, t),
                  ChildPaths(tree, Head(todo)) \o Tail(todo))

PreOrder(tree) == PreOrderFrom(tree, << <<>> >>)

RECURSIVE LevelOrderFrom(_, _)
\* the queue of tree.traverse('levelorder'): pop left, yield, extend with children
LevelOrderFrom(tree, tovisit) ==
  IF tovisit = <<>> THEN <<>>
  ELSE <<Head(tovisit)>>
         \o Value(LAMBDA q : LevelOrderFrom(tree, q),
                  Tail(tovisit) \o ChildPaths(tree, Head(tovisit)))

\* the traversal in preorder instead
LevelOrderAsPreOrder(tree) == Value(LAMBDA t : PreOrder(t), tree)

\* line 122: the paths of the nodes in the order the loop sees them
LevelOrder(tree) == Value(LAMBDA t : LevelOrderFrom(t, << <<>> >>), tree)

\* lines 120-124: <<path>> of the first node whose name the expression finds,
\* <<>> when the loop ends without a return (None)
FindMatchingPath(tree, patterns) ==
  Value(LAMBDA order :
          LET hits == { i \in 1..Len(order) :
                          RegexSearch(patterns, NodeAt(tree, order[i]).name) }
          IN  IF hits = {} THEN <<>>
              ELSE <<order[CHOOSE i \in hits : \A j \in hits : i <= j]>>,
        LevelOrder(tree))

\* the same result as the node itself: <<>> for None, <<node>> otherwise
FindMatchingNode(tree, patterns) ==
  Value(LAMBDA m : IF m = <<>> THEN <<>> ELSE <<NodeAt(tree, m[1])>>,
        FindMatchingPath(tree, patterns))

\* lines 189-191: the patterns build_tree passes for a leaf
LeafPatterns(leaflinktext, leafname) == <<leaflinktext>> \o Split(leafname, "/")

RECURSIVE AllPaths(_, _)
\* every path of the tree below (and including) path
AllPaths(tree, path) ==
  {path} \cup UNION { AllPaths(tree, Append(path, i)) :
                        i \in 1..Len(NodeAt(tree, path).children) }

RECURSIVE TreeSize(_)
TreeSize(node) ==
  1 + (IF node.children = <<>> THEN 0
       ELSE LET S[i \in 0..Len(node.children)] ==
                  IF i = 0 THEN 0 ELSE S[i - 1] + TreeSize(node.children[i])
            IN  S[Len(node.children)])

(***************************************************************************)
(* Inputs of the matcher: trees of at most MaxNodes nodes.                 *)
(***************************************************************************)
MNames == {<<"a">>, <<"A", "b">>, <<"f">>}

RECURSIVE NameForests(_)
NameForests(n) ==
  IF n = 0 THEN {<<>>}
  ELSE UNION { { <<[name |-> nm, children |-> k]>> \o rest :
                   nm \in MNames, k \in NameForests(m - 1),
                   rest \in NameForests(n - m) }
               : m \in 1..n }

MTrees ==
  UNION { { [name |-> nm, children |-> k] : nm \in MNames, k \in NameForests(n - 1) }
          : n \in 1..MaxNodes }

MLinkTexts == {<<>>, <<"b">>, <<"F">>}
MLeafNames == {<<"a", "B">>, <<"a", "b", "/", "f">>, <<"y">>}

(***************************************************************************)
(* Clade tables as build_tree reads them.                                  *)
(*   table : [tbody, rows]             tbody FALSE: no <tbody> child       *)
(*   row   : [cls, text, dashed, leaf] for the first <td> of the <tr>      *)
(*   leaf  : the next sibling <td class=clade-leaf>: none, a nested clade  *)
(*           table, or text with its <a> and <img> elements                *)
(***************************************************************************)
NoCell == [kind |-> "none"]
TableLeaf(t) == [kind |-> "table", table |-> t]
TextLeaf(text, anchors, imgs) ==
  [kind |-> "text", text |-> text, anchors |-> anchors, imgs |-> imgs]
Anchor(page, redlink, text) ==
  [href |-> [page |-> page, redlink |-> redlink], text |-> text, image |-> FALSE]
ImageAnchor(page) ==
  [href |-> [page |-> page, redlink |-> FALSE], text |-> <<>>, image |-> TRUE]
Img(src) == [src |-> src, width |-> "20", height |-> "10"]

LabelRow(text, dashed, leaf) ==
  [cls |-> "clade-label", text |-> text, dashed |-> dashed, leaf |-> leaf]
SlabelRow(text) ==
  [cls |-> "clade-slabel", text |-> text, dashed |-> FALSE, leaf |-> NoCell]
OtherRow ==
  [cls |-> "other", text |-> <<>>, dashed |-> FALSE, leaf |-> NoCell]
Table(rows) == [tbody |-> TRUE, rows |-> rows]
NoBodyTable == [tbody |-> FALSE, rows |-> <<>>]

\* line 128 and 132-133: the rows the loop visits
RowsOf(table) == IF table.tbody THEN table.rows ELSE <<>>

(***************************************************************************)
(* The pages reachable through leaf links, each as the list of clade       *)
(* tables get_wiki_tree(url=href) returns for it.                          *)
(*   P1: one tree F(f, q); its leaf f links back to P1 (a cycle)           *)
(*   P2: a page without clade table                                        *)
(*   P3: two tables; the first holds h as a leaf, the second H(r, s),      *)
(*       whose leaf s links to P1                                          *)
(***************************************************************************)
Pages == {"P1", "P2", "P3"}

PageTables(page) ==
  CASE page = "P1" ->
         << Table(<< LabelRow(<<"F">>, FALSE, TableLeaf(Table(<<
              LabelRow(<<>>, FALSE,
                       TextLeaf(<<"f">>, <<Anchor("P1", FALSE, <<"f">>)>>, <<>>)),
              LabelRow(<<>>, TRUE, TextLeaf(<<"q">>, <<>>, <<>>)) >>))) >>) >>
    [] page = "P2" -> <<>>
    [] page = "P3" ->
         << Table(<< LabelRow(<<>>, FALSE, TextLeaf(<<"h">>, <<>>, <<>>)) >>),
            Table(<< LabelRow(<<"H">>, FALSE, TableLeaf(Table(<<
              LabelRow(<<>>, FALSE, TextLeaf(<<"r">>, <<>>, <<>>)),
              LabelRow(<<>>, FALSE,
                       TextLeaf(<<"q">>, <<Anchor("P1", FALSE, <<"q">>)>>, <<>>)) >>))),
                     SlabelRow(<<"9", "0">>) >>) >>

(***************************************************************************)
(* The tables handed to build_tree: up to MaxRows rows drawn from InRows.  *)
(***************************************************************************)
InLeaves ==
  { TextLeaf(<<" ", "f">>, <<>>, <<>>),
    TextLeaf(<<"f">>, <<Anchor("P1", FALSE, <<"f">>)>>, <<Img(<<"i">>)>>),
    TextLeaf(<<"f">>, <<Anchor("P2", FALSE, <<"f">>)>>, <<>>),
    TextLeaf(<<"g", "/", "h">>,
             <<Anchor("P3", FALSE, <<"x">>), ImageAnchor("P2"),
               Anchor("P2", FALSE, <<"g">>)>>, <<>>),
    TextLeaf(<<"f">>, <<Anchor("P1", TRUE, <<"f">>)>>, <<>>),
    TextLeaf(<<"q">>, <<Anchor("P1", FALSE, <<"q">>)>>, <<>>) }

InnerTables ==
  { Table(<< LabelRow(<<>>, FALSE, TextLeaf(<<"r">>, <<>>, <<>>)),
             LabelRow(<<"Y">>, FALSE, TextLeaf(<<"s">>, <<>>, <<>>)) >>),
    Table(<< LabelRow(<<>>, FALSE, TableLeaf(Table(<<
               LabelRow(<<>>, FALSE, TextLeaf(<<"r">>, <<>>, <<>>)) >>))),
             SlabelRow(<<"9">>) >>),
    NoBodyTable }

InRows ==
  { LabelRow(<<>>, FALSE, lf) : lf \in InLeaves }
    \cup { LabelRow(<<"Y", " ">>, TRUE, lf) :
             lf \in { l \in InLeaves : /\ l.text \in {<<" ", "f">>, <<"f">>}
                                       /\ \A i \in 1..Len(l.anchors) :
                                             ~l.anchors[i].href.redlink } }
    \cup { LabelRow(<<"Y">>, FALSE, TableLeaf(t)) : t \in InnerTables }
    \cup { LabelRow(<<"Y">>, FALSE, NoCell), SlabelRow(<<" ", "9">>), OtherRow }

RECURSIVE RowSeqs(_)
RowSeqs(n) ==
  IF n = 0 THEN {<<>>}
  ELSE { Append(rs, r) : rs \in RowSeqs(n - 1), r \in InRows }

InTables ==
  {NoBodyTable} \cup UNION { { Table(rs) : rs \in RowSeqs(n) } : n \in 0..MaxRows }

(***************************************************************************)
(* Nodes (ete3.TreeNode).  features is the set of added features; a        *)
(* feature not in it holds a filler value.                                 *)
(***************************************************************************)
\* ete3.TreeNode(name=...): default support, no feature
TreeNode(name) ==
  [name |-> name, support |-> "1.0", children |-> <<>>, features |-> {},
   info |-> <<>>, wikipedia_page_depth |-> None, link |-> [page |-> "", redlink |-> FALSE],
   imgs |-> <<>>, imgsizes |-> <<>>]

\* lines 138-143
LabelNode(row, depth) ==
  [TreeNode(Strip(row.text)) EXCEPT
     !.features = {"info", "wikipedia_page_depth"},
     !.wikipedia_page_depth = depth,
     !.support = IF row.dashed THEN "0.5" ELSE "1.0"]

\* the rule with the test of line 154 left out: the leaf name always replaces
\* the label
LeadingBranchAlwaysRename(node, leafname) == [node EXCEPT !.name = leafname]

\* the rule with the branch of line 158 taken always: the leaf is always a child
LeadingBranchAlwaysChild(node, leafname) ==
  [node EXCEPT !.children = Append(@, TreeNode(leafname))]

\* lines 154-158, the leading-branch rule
LeadingBranch(node, leafname) ==
  IF node.name = <<>>
  THEN [node EXCEPT !.name = leafname]
  ELSE [node EXCEPT !.children = Append(@, TreeNode(leafname))]

\* lines 160-161
AddLink(node, anchors) ==
  IF anchors # <<>>
  THEN [node EXCEPT !.features = @ \cup {"link"}, !.link = anchors[1].href]
  ELSE node

\* lines 168-171
AddImgs(node, imgs) ==
  [node EXCEPT !.features = @ \cup {"imgs", "imgsizes"},
               !.imgs = [i \in 1..Len(imgs) |-> imgs[i].src],
               !.imgsizes = [i \in 1..Len(imgs) |-> <<imgs[i].width, imgs[i].height>>]]

\* lines 162-163: the later anchors that are not image links
OtherLinks(anchors) ==
  IF anchors = <<>> THEN <<>>
  ELSE SelectSeq(Tail(anchors), LAMBDA a : ~a.image)

\* line 173 with <= for <
StitchTriggerOffByOne(depth, maxDepth, anchors) ==
  /\ depth <= maxDepth
  /\ anchors # <<>>
  /\ ~anchors[1].href.redlink

\* line 173
StitchTrigger(depth, maxDepth, anchors) ==
  /\ depth < maxDepth
  /\ anchors # <<>>
  /\ ~anchors[1].href.redlink

\* line 188 passing _recurs_count on unchanged
StitchDepthSame(depth) == depth

\* line 188: the depth of the build of a linked page's table
StitchDepth(depth) == depth + 1

\* line 194: matched_node and not matched_node.is_leaf()
Qualifies(matched_node) == matched_node # <<>> /\ matched_node[1].children # <<>>

\* lines 187-197: the position in hreftrees of the first tree whose matched
\* node exists and is not a leaf, 0 when the inner loop ends without break
FirstStitchTree(hreftrees, patterns) ==
  LET ok == { i \in 1..Len(hreftrees) :
                Qualifies(FindMatchingNode(hreftrees[i], patterns)) }
  IN  IF ok = {} THEN 0 ELSE CHOOSE i \in ok : \A j \in ok : i <= j

\* lines 195-196
StitchChildren(node, hreftree, patterns) ==
  [node EXCEPT !.children = @ \o FindMatchingNode(hreftree, patterns)[1].children]

(***************************************************************************)
(* State.                                                                  *)
(***************************************************************************)
VARIABLES
  \* get_wiki_tree
  lpc,         \* position: idle, start, loop, after, done, crashed
  lterm,       \* the term argument
  soup,        \* the parsed document, a forest
  tree_index,  \* None or the parsed index
  tablesoups,  \* the list built by the loop (positions in document order)
  tablesoup,   \* the loop variable: a position or None
  lresult,     \* the returned list
  \* find_matching_node
  mpc,         \* position: idle, call, done
  mtree,       \* the tree argument
  mpatterns,   \* the patterns
  mresult,     \* <<>> for None, <<path>> for the returned node
  \* build_tree
  bpc,         \* position: idle, run, done, crashed
  btable,      \* the table of the outermost call
  recurs,      \* the depth budget (maxDepth)
  stack,       \* the invocations of build_tree in progress, innermost last
  fetched,     \* the calls of get_wiki_tree made so far: href and calling depth
  warnings,    \* the logger.warning calls made so far
  bresult      \* the list the outermost call returned

locVars == <<lpc, lterm, soup, tree_index, tablesoups, tablesoup, lresult>>
matchVars == <<mpc, mtree, mpatterns, mresult>>
buildVars == <<bpc, btable, recurs, stack, fetched, warnings, bresult>>
vars == <<locVars, matchVars, buildVars>>

LocIdle ==
  /\ lpc = "idle" /\ lterm = <<>> /\ soup = <<>> /\ tree_index = None
  /\ tablesoups = <<>> /\ tablesoup = None /\ lresult = <<>>

MatchIdle ==
  /\ mpc = "idle" /\ mtree = [name |-> <<>>, children |-> <<>>]
  /\ mpatterns = <<>> /\ mresult = <<>>

BuildIdle ==
  /\ bpc = "idle" /\ btable = NoBodyTable /\ recurs = 0 /\ stack = <<>>
  /\ fetched = <<>> /\ warnings = <<>> /\ bresult = <<>>

(***************************************************************************)
(* get_wiki_tree: the locator.                                             *)
(***************************************************************************)
LocInit ==
  /\ lpc = "start"
  /\ lterm \in Terms
  /\ soup \in Documents
  /\ tree_index = None
  /\ tablesoups = <<>>
  /\ tablesoup = None
  /\ lresult = <<>>
  /\ MatchIdle /\ BuildIdle

\* lines 48-64
LocStart ==
  /\ lpc = "start"
  /\ tree_index' = ParseTerm(lterm).tree_index
  /\ tablesoup' = FindNext(DocOrder(soup), 0)
  /\ lpc' = "loop"
  /\ UNCHANGED <<lterm, soup, tablesoups, lresult, matchVars, buildVars>>

\* lines 66-74, one iteration of the while loop
LocLoop ==
  /\ lpc = "loop"
  /\ tablesoup # None
  /\ tablesoups' = Append(tablesoups, tablesoup)
  /\ LET order == DocOrder(soup)
         nd == order[tablesoup].ndesc
     IN  IF nd = 0
         THEN \* list(tablesoup.descendants)[-1] raises IndexError: break
              /\ lpc' = "after"
              /\ tablesoup' = tablesoup
         ELSE IF tree_index = Len(tablesoups')
         THEN /\ lpc' = "after"
              /\ tablesoup' = tablesoup
         ELSE /\ lpc' = "loop"
              /\ tablesoup' = FindNext(order, tablesoup + nd)
  /\ UNCHANGED <<lterm, soup, tree_index, lresult, matchVars, buildVars>>

\* line 66, the loop condition fails
LocLoopEnd ==
  /\ lpc = "loop"
  /\ tablesoup = None
  /\ lpc' = "after"
  /\ UNCHANGED <<lterm, soup, tree_index, tablesoups, tablesoup, lresult,
                 matchVars, buildVars>>

\* "if tree_index:" is false for None and for 0
Truthy(idx) == idx # None /\ idx # 0

\* lines 91-93
LocReturn ==
  /\ lpc = "after"
  /\ ~(Truthy(tree_index) /\ tablesoups = <<>>)
  /\ lresult' = IF Truthy(tree_index)
                THEN <<tablesoups[Len(tablesoups)]>>
                ELSE tablesoups
  /\ lpc' = "done"
  /\ UNCHANGED <<lterm, soup, tree_index, tablesoups, tablesoup,
                 matchVars, buildVars>>

\* line 92 on an empty list: tablesoups[-1] raises IndexError
LocCrash ==
  /\ lpc = "after"
  /\ Truthy(tree_index)
  /\ tablesoups = <<>>
  /\ lpc' = "crashed"
  /\ UNCHANGED <<lterm, soup, tree_index, tablesoups, tablesoup, lresult,
                 matchVars, buildVars>>

LocNext == LocStart \/ LocLoop \/ LocLoopEnd \/ LocReturn \/ LocCrash

SpecLocate == LocInit /\ [][LocNext]_vars

(***************************************************************************)
(* find_matching_node, called as build_tree calls it.                      *)
(***************************************************************************)
MatchInit ==
  /\ mpc = "call"
  /\ mtree \in MTrees
  /\ \E lt \in MLinkTexts, ln \in MLeafNames : mpatterns = LeafPatterns(lt, ln)
  /\ mresult = <<>>
  /\ LocIdle /\ BuildIdle

\* lines 122-124: the loop returns a node
MatchReturn ==
  /\ mpc = "call"
  /\ FindMatchingPath(mtree, mpatterns) # <<>>
  /\ mresult' = FindMatchingPath(mtree, mpatterns)
  /\ mpc' = "done"
  /\ UNCHANGED <<mtree, mpatterns, locVars, buildVars>>

\* lines 122-124: the loop ends, the function returns None
MatchNone ==
  /\ mpc = "call"
  /\ FindMatchingPath(mtree, mpatterns) = <<>>
  /\ mresult' = <<>>
  /\ mpc' = "done"
  /\ UNCHANGED <<mtree, mpatterns, locVars, buildVars>>

MatchNext == MatchReturn \/ MatchNone

SpecMatch == MatchInit /\ [][MatchNext]_vars

(***************************************************************************)
(* build_tree.  One frame of stack per invocation in progress:             *)
(*   table, depth : the arguments tablesoup and _recurs_count              *)
(*   row          : the position of the row the loop is at                 *)
(*   nodes        : the list nodes                                         *)
(*   phase        : rows    at the top of the loop body (or past the loop) *)
(*                  nested  inside the call of line 148                    *)
(*                  fetch   at line 173 with the condition true            *)
(*                  stitch  inside the call of line 188                    *)
(*   hreftreesoups, k : the list of line 177 and the position in it        *)
(***************************************************************************)
Frame(table, depth) ==
  [table |-> table, depth |-> depth, row |-> 1, nodes |-> <<>>,
   phase |-> "rows", hreftreesoups |-> <<>>, k |-> 0]

Top == stack[Len(stack)]
Caller == stack[Len(stack) - 1]
CurRow(f) == RowsOf(f.table)[f.row]
AtRow(f) == f.phase = "rows" /\ f.row <= Len(RowsOf(f.table))
Finished(f) == f.phase = "rows" /\ f.row > Len(RowsOf(f.table))

SetLast(nodes, n) == [nodes EXCEPT ![Len(nodes)] = n]
ReplaceTop(f) == [stack EXCEPT ![Len(stack)] = f]
\* the innermost invocation has returned: the stack with the caller updated
PopInto(f) == Append(SubSeq(stack, 1, Len(stack) - 2), f)

\* the patterns of lines 185-191 for the row frame f is at
RowPatterns(f) ==
  LeafPatterns(Strip(CurRow(f).leaf.anchors[1].text), Strip(CurRow(f).leaf.text))

NotFoundWarning(f) ==
  [kind |-> "not found", a |-> Strip(CurRow(f).leaf.text),
   b |-> Strip(CurRow(f).leaf.anchors[1].text)]

BuildInit ==
  /\ bpc = "run"
  /\ btable \in InTables
  /\ recurs \in 0..MaxRecurs
  /\ stack = <<Frame(btable, 0)>>
  /\ fetched = <<>>
  /\ warnings = <<>>
  /\ bresult = <<>>
  /\ LocIdle /\ MatchIdle

\* lines 136-148: a label row whose leaf cell holds a nested clade table
BuildLabelNested ==
  /\ bpc = "run" /\ AtRow(Top)
  /\ CurRow(Top).cls = "clade-label"
  /\ CurRow(Top).leaf.kind = "table"
  /\ stack' = Append(
       ReplaceTop([Top EXCEPT !.nodes = Append(@, LabelNode(CurRow(Top), Top.depth)),
                              !.phase = "nested"]),
       Frame(CurRow(Top).leaf.table, Top.depth))
  /\ UNCHANGED <<bpc, btable, recurs, fetched, warnings, bresult, locVars, matchVars>>

\* lines 136-146 and 151-173: a label row whose leaf cell holds leaf content
BuildLabelLeaf ==
  /\ bpc = "run" /\ AtRow(Top)
  /\ CurRow(Top).cls = "clade-label"
  /\ CurRow(Top).leaf.kind = "text"
  /\ LET leaf == CurRow(Top).leaf
         node == AddImgs(AddLink(LeadingBranch(LabelNode(CurRow(Top), Top.depth),
                                               Strip(leaf.text)),
                                 leaf.anchors),
                         leaf.imgs)
         go == StitchTrigger(Top.depth, recurs, leaf.anchors)
     IN  /\ stack' = ReplaceTop([Top EXCEPT !.nodes = Append(@, node),
                                            !.phase = IF go THEN "fetch" ELSE "rows",
                                            !.row = IF go THEN @ ELSE @ + 1])
         /\ warnings' = IF OtherLinks(leaf.anchors) # <<>>
                        THEN Append(warnings, [kind |-> "alternative links",
                                               a |-> Strip(leaf.text),
                                               b |-> OtherLinks(leaf.anchors)[1].text])
                        ELSE warnings
  /\ UNCHANGED <<bpc, btable, recurs, fetched, bresult, locVars, matchVars>>

\* lines 145-146: find_next_sibling returns None, None.findChild raises
BuildLabelNoLeaf ==
  /\ bpc = "run" /\ AtRow(Top)
  /\ CurRow(Top).cls = "clade-label"
  /\ CurRow(Top).leaf.kind = "none"
  /\ bpc' = "crashed"
  /\ UNCHANGED <<btable, recurs, stack, fetched, warnings, bresult, locVars, matchVars>>

\* lines 174-178: the linked page holds no clade table
BuildFetchEmpty ==
  /\ bpc = "run" /\ Top.phase = "fetch"
  /\ PageTables(CurRow(Top).leaf.anchors[1].href.page) = <<>>
  /\ fetched' = Append(fetched, [href |-> CurRow(Top).leaf.anchors[1].href,
                                 depth |-> Top.depth])
  /\ stack' = ReplaceTop([Top EXCEPT !.phase = "rows", !.row = @ + 1])
  /\ UNCHANGED <<bpc, btable, recurs, warnings, bresult, locVars, matchVars>>

\* lines 174-188: the linked page holds tables, build the first one
BuildFetchTables ==
  /\ bpc = "run" /\ Top.phase = "fetch"
  /\ LET hrefs == PageTables(CurRow(Top).leaf.anchors[1].href.page)
     IN  /\ hrefs # <<>>
         /\ stack' = Append(
              ReplaceTop([Top EXCEPT !.phase = "stitch", !.hreftreesoups = hrefs,
                                     !.k = 1]),
              Frame(hrefs[1], StitchDepth(Top.depth)))
  /\ fetched' = Append(fetched, [href |-> CurRow(Top).leaf.anchors[1].href,
                                 depth |-> Top.depth])
  /\ UNCHANGED <<bpc, btable, recurs, warnings, bresult, locVars, matchVars>>

\* lines 205-206 with a preceding node
BuildSlabel ==
  /\ bpc = "run" /\ AtRow(Top)
  /\ CurRow(Top).cls = "clade-slabel"
  /\ Top.nodes # <<>>
  /\ LET last == Top.nodes[Len(Top.nodes)]
     IN  stack' = ReplaceTop(
           [Top EXCEPT !.nodes = SetLast(@, [last EXCEPT !.info =
                                               Append(@, Strip(CurRow(Top).text))]),
                       !.row = @ + 1])
  /\ UNCHANGED <<bpc, btable, recurs, fetched, warnings, bresult, locVars, matchVars>>

\* lines 205-206 without one: nodes[-1] raises IndexError
BuildSlabelNoNode ==
  /\ bpc = "run" /\ AtRow(Top)
  /\ CurRow(Top).cls = "clade-slabel"
  /\ Top.nodes = <<>>
  /\ bpc' = "crashed"
  /\ UNCHANGED <<btable, recurs, stack, fetched, warnings, bresult, locVars, matchVars>>

\* lines 207-209
BuildOtherRow ==
  /\ bpc = "run" /\ AtRow(Top)
  /\ CurRow(Top).cls \notin {"clade-label", "clade-slabel"}
  /\ warnings' = Append(warnings,
       [kind |-> "unexpected class",
        a |-> IF Top.nodes # <<>> THEN Top.nodes[Len(Top.nodes)].name ELSE <<>>,
        b |-> <<>>])
  /\ stack' = ReplaceTop([Top EXCEPT !.row = @ + 1])
  /\ UNCHANGED <<bpc, btable, recurs, fetched, bresult, locVars, matchVars>>

\* line 210 of the outermost call
BuildReturnTop ==
  /\ bpc = "run" /\ Len(stack) = 1 /\ Finished(Top)
  /\ bresult' = Top.nodes
  /\ bpc' = "done"
  /\ stack' = <<>>
  /\ UNCHANGED <<btable, recurs, fetched, warnings, locVars, matchVars>>

\* line 210 of a call made at line 148, and lines 148-149 of the caller
BuildReturnNested ==
  /\ bpc = "run" /\ Len(stack) > 1 /\ Finished(Top)
  /\ Caller.phase = "nested"
  /\ LET last == Caller.nodes[Len(Caller.nodes)]
     IN  stack' = PopInto(
           [Caller EXCEPT !.nodes = SetLast(@, [last EXCEPT !.children = @ \o Top.nodes]),
                          !.phase = "rows", !.row = @ + 1])
  /\ UNCHANGED <<bpc, btable, recurs, fetched, warnings, bresult, locVars, matchVars>>

\* line 210 of a call made at line 188, and lines 188-200 of the caller: a
\* returned tree holds a matched node that is not a leaf
BuildStitchMatch ==
  /\ bpc = "run" /\ Len(stack) > 1 /\ Finished(Top)
  /\ Caller.phase = "stitch"
  /\ \E hreftrees \in {Top.nodes}, patterns \in {RowPatterns(Caller)} :
       \E t \in {FirstStitchTree(hreftrees, patterns)} :
         /\ t # 0
         /\ stack' = PopInto(
              [Caller EXCEPT !.nodes = SetLast(@, StitchChildren(@[Len(@)], hreftrees[t],
                                                                 patterns)),
                             !.phase = "rows", !.row = @ + 1,
                             !.hreftreesoups = <<>>, !.k = 0])
  /\ UNCHANGED <<bpc, btable, recurs, fetched, warnings, bresult, locVars, matchVars>>

\* lines 187-199: no tree of this table qualifies, on to the next table
BuildStitchNext ==
  /\ bpc = "run" /\ Len(stack) > 1 /\ Finished(Top)
  /\ Caller.phase = "stitch"
  /\ Caller.k < Len(Caller.hreftreesoups)
  /\ \E hreftrees \in {Top.nodes}, patterns \in {RowPatterns(Caller)} :
       FirstStitchTree(hreftrees, patterns) = 0
  /\ stack' = Append(PopInto([Caller EXCEPT !.k = @ + 1]),
                     Frame(Caller.hreftreesoups[Caller.k + 1], StitchDepth(Caller.depth)))
  /\ UNCHANGED <<bpc, btable, recurs, fetched, warnings, bresult, locVars, matchVars>>

\* lines 201-203: the outer loop ends without break
BuildStitchFail ==
  /\ bpc = "run" /\ Len(stack) > 1 /\ Finished(Top)
  /\ Caller.phase = "stitch"
  /\ Caller.k = Len(Caller.hreftreesoups)
  /\ \E hreftrees \in {Top.nodes}, patterns \in {RowPatterns(Caller)} :
       FirstStitchTree(hreftrees, patterns) = 0
  /\ warnings' = Append(warnings, NotFoundWarning(Caller))
  /\ stack' = PopInto([Caller EXCEPT !.phase = "rows", !.row = @ + 1,
                                     !.hreftreesoups = <<>>, !.k = 0])
  /\ UNCHANGED <<bpc, btable, recurs, fetched, bresult, locVars, matchVars>>

BuildNext ==
  \/ BuildLabelNested \/ BuildLabelLeaf \/ BuildLabelNoLeaf
  \/ BuildFetchEmpty \/ BuildFetchTables
  \/ BuildSlabel \/ BuildSlabelNoNode \/ BuildOtherRow
  \/ BuildReturnTop \/ BuildReturnNested
  \/ BuildStitchMatch \/ BuildStitchNext \/ BuildStitchFail

SpecBuild == BuildInit /\ [][BuildNext]_vars

\* every call returns and the interpreter keeps running: a step that can be
\* taken is taken
SpecBuildFair == SpecBuild /\ WF_vars(BuildNext)

(***************************************************************************)
(* Measures of a table and of a result, computed from the table alone.     *)
(***************************************************************************)
IsLabel(row) == row.cls = "clade-label"

RECURSIVE SoundTable(_)
\* no row makes build_tree raise: every label row has its leaf cell and no
\* clade-slabel row comes before the first label row; nested tables likewise
SoundTable(t) ==
  LET rows == RowsOf(t)
  IN  \A i \in 1..Len(rows) :
        /\ rows[i].cls = "clade-slabel" => \E j \in 1..(i - 1) : IsLabel(rows[j])
        /\ IsLabel(rows[i]) => rows[i].leaf.kind # "none"
        /\ (IsLabel(rows[i]) /\ rows[i].leaf.kind = "table")
             => SoundTable(rows[i].leaf.table)

RECURSIVE OnlyKnownRows(_)
OnlyKnownRows(t) ==
  \A i \in 1..Len(RowsOf(t)) :
     /\ RowsOf(t)[i].cls \in {"clade-label", "clade-slabel"}
     /\ (IsLabel(RowsOf(t)[i]) /\ RowsOf(t)[i].leaf.kind = "table")
          => OnlyKnownRows(RowsOf(t)[i].leaf.table)

\* a well-formed table: a body, exactly one label row at the top level, every
\* label row with a leaf cell holding a nested table or leaf text
WellFormed(t) ==
  /\ t.tbody
  /\ SoundTable(t)
  /\ OnlyKnownRows(t)
  /\ Cardinality({ i \in 1..Len(t.rows) : IsLabel(t.rows[i]) }) = 1

RECURSIVE LabelRows(_)
\* the number of clade-label rows, those of all nested tables included
LabelRows(t) ==
  LET rows == RowsOf(t)
      S[i \in 0..Len(rows)] ==
        IF i = 0 THEN 0
        ELSE S[i - 1]
             + (IF IsLabel(rows[i]) THEN 1 ELSE 0)
             + (IF IsLabel(rows[i]) /\ rows[i].leaf.kind = "table"
                THEN LabelRows(rows[i].leaf.table) ELSE 0)
  IN  S[Len(rows)]

RECURSIVE NamedLeafRows(_)
\* the number of label rows with a non-empty label text and leaf text in
\* the leaf cell, those of all nested tables included
NamedLeafRows(t) ==
  LET rows == RowsOf(t)
      S[i \in 0..Len(rows)] ==
        IF i = 0 THEN 0
        ELSE S[i - 1]
             + (IF IsLabel(rows[i]) /\ rows[i].leaf.kind = "text"
                   /\ Strip(rows[i].text) # <<>> THEN 1 ELSE 0)
             + (IF IsLabel(rows[i]) /\ rows[i].leaf.kind = "table"
                THEN NamedLeafRows(rows[i].leaf.table) ELSE 0)
  IN  S[Len(rows)]

\* the number of nodes of a list of trees
NodeCount(trees) ==
  LET S[i \in 0..Len(trees)] ==
        IF i = 0 THEN 0 ELSE S[i - 1] + TreeSize(trees[i])
  IN  S[Len(trees)]

\* every node of a list of trees
NodesOf(trees) ==
  UNION { { NodeAt(trees[i], p) : p \in AllPaths(trees[i], <<>>) } : i \in 1..Len(trees) }

\* path p comes before path q in breadth-first order: shallower first, and at
\* equal depth the one that branches off to the left first
RECURSIVE LexLess(_, _)
LexLess(p, q) ==
  /\ p # <<>> /\ q # <<>>
  /\ \/ Head(p) < Head(q)
     \/ Head(p) = Head(q) /\ LexLess(Tail(p), Tail(q))

BreadthFirstBefore(p, q) ==
  Len(p) < Len(q) \/ (Len(p) = Len(q) /\ LexLess(p, q))

(***************************************************************************)
(* C1.  For a well-formed table and recurs = 0, build_tree returns exactly *)
(* one root whose subtree has as many nodes as the table has label rows,   *)
(* nested tables included, whatever the label texts.                       *)
(* This is the claim as stated; the code breaks it.                        *)
(***************************************************************************)
C1_SizeEqualsLabelRows ==
  (bpc = "done" /\ recurs = 0 /\ WellFormed(btable))
    => /\ Len(bresult) = 1
       /\ TreeSize(bresult[1]) = LabelRows(btable)

(***************************************************************************)
(* C1 amended.  For a well-formed table and recurs = 0, build_tree returns *)
(* exactly one root, and the number of nodes of its subtree is the number  *)
(* of label rows plus the number of label rows that have a non-empty label *)
(* text and a leaf cell without nested table (each of those yields the     *)
(* label node and a child).                                                *)
(***************************************************************************)
C1_SizeAmended ==
  (bpc = "done" /\ recurs = 0 /\ WellFormed(btable))
    => /\ Len(bresult) = 1
       /\ TreeSize(bresult[1]) = LabelRows(btable) + NamedLeafRows(btable)

\* a well-formed table with a nested table and a named row with leaf text was built
C1_Witness ==
  /\ bpc = "done" /\ recurs = 0 /\ WellFormed(btable)
  /\ NamedLeafRows(btable) > 0
  /\ LabelRows(btable) > 2
  /\ Len(bresult) = 1

C3_StitchOntoLeaf ==
  [][ (bpc = "run" /\ Len(stack) > 1 /\ Finished(Top) /\ Caller.phase = "stitch"
         /\ FirstStitchTree(Top.nodes, RowPatterns(Caller)) # 0)
      => LET row == CurRow(Caller)
             pats == RowPatterns(Caller)
             tree == Top.nodes[FirstStitchTree(Top.nodes, pats)]
             matched == FindMatchingNode(tree, pats)[1]
             before == Caller.nodes[Len(Caller.nodes)]
             after == Top'.nodes[Len(Top'.nodes)]
             carrier(n) == IF Strip(row.text) = <<>> THEN n ELSE n.children[1]
         IN  /\ carrier(after).name = Strip(row.leaf.text)
             /\ carrier(after).children = carrier(before).children \o matched.children
             /\ "link" \in carrier(after).features
             /\ carrier(after).link = row.leaf.anchors[1].href
             /\ "imgs" \in carrier(after).features
             /\ carrier(after).imgs = [i \in 1..Len(row.leaf.imgs) |-> row.leaf.imgs[i].src]
    ]_vars

(***************************************************************************)
(* C4.  A fetch is issued only at a depth strictly below recurs and only   *)
(* for a link that is no redlink; a nested-table call keeps the depth, a   *)
(* stitched-page call has depth + 1; with recurs = 0 nothing is fetched    *)
(* and the result holds only the nodes the table itself gives; every       *)
(* recorded wikipedia_page_depth is at most recurs.                        *)
(***************************************************************************)
C4_FetchOnlyWithinBudget ==
  /\ \A i \in 1..Len(fetched) :
        /\ 0 <= fetched[i].depth /\ fetched[i].depth < recurs
        /\ ~fetched[i].href.redlink
  /\ \A i \in 1..Len(stack) :
        /\ i = 1 => stack[i].depth = 0
        /\ i < Len(stack) => stack[i].phase \in {"nested", "stitch"}
        /\ stack[i].phase \in {"fetch", "stitch"} => stack[i].depth < recurs
        /\ (i > 1 /\ stack[i - 1].phase = "nested") => stack[i].depth = stack[i - 1].depth
        /\ (i > 1 /\ stack[i - 1].phase = "stitch") => stack[i].depth = stack[i - 1].depth + 1
        /\ \A n \in NodesOf(stack[i].nodes) :
              "wikipedia_page_depth" \in n.features => n.wikipedia_page_depth <= recurs
  /\ \A n \in NodesOf(bresult) :
        "wikipedia_page_depth" \in n.features => n.wikipedia_page_depth <= recurs
  /\ recurs = 0 => fetched = <<>>
  /\ (recurs = 0 /\ bpc = "done")
       => NodeCount(bresult) = LabelRows(btable) + NamedLeafRows(btable)

\* with budget left a stitched page was built one level down, with none a
\* linked leaf was returned as it is
C4_Witness ==
  /\ bpc = "done" /\ recurs = 2
  /\ Len(fetched) >= 2 /\ fetched[2].depth = 1
  /\ \E n \in NodesOf(bresult) : n.wikipedia_page_depth = 2

(***************************************************************************)
(* C7.  A structural anomaly never aborts build_tree: at a clade-slabel    *)
(* row with no preceding node, a label row without leaf cell or a row of   *)
(* unrecognized class, build_tree warns, skips the row and goes on with    *)
(* the nodes built so far unchanged.                                       *)
(***************************************************************************)
C7_AnomalyNeverAborts ==
  [][ (bpc = "run" /\ AtRow(Top)
         /\ \/ CurRow(Top).cls = "clade-slabel" /\ Top.nodes = <<>>
            \/ IsLabel(CurRow(Top)) /\ CurRow(Top).leaf.kind = "none"
            \/ CurRow(Top).cls \notin {"clade-label", "clade-slabel"})
      => /\ bpc' = "run"
         /\ Len(warnings') = Len(warnings) + 1
         /\ Top'.row = Top.row + 1
         /\ Top'.nodes = Top.nodes ]_vars

(***************************************************************************)
(* C8.  When a triggered stitch ends without a qualifying match, the case  *)
(* of a linked page without clade table included, the leaf's node keeps    *)
(* the children it had and a warning with the leaf name and the link text  *)
(* is emitted.                                                             *)
(***************************************************************************)
C8_UnresolvedStitchWarns ==
  [][ /\ (bpc = "run" /\ Top.phase = "fetch"
            /\ PageTables(CurRow(Top).leaf.anchors[1].href.page) = <<>>)
         => /\ warnings' = Append(warnings, NotFoundWarning(Top))
            /\ Top'.nodes = Top.nodes
      /\ (bpc = "run" /\ Len(stack) > 1 /\ Finished(Top) /\ Caller.phase = "stitch"
            /\ FirstStitchTree(Top.nodes, RowPatterns(Caller)) = 0
            /\ Caller.k = Len(Caller.hreftreesoups))
         => /\ warnings' = Append(warnings, NotFoundWarning(Caller))
            /\ Top'.nodes = Caller.nodes ]_vars

(***************************************************************************)
(* C10.  Whatever cycles the leaf links form, a chain of nested page       *)
(* builds is never longer than recurs, build_tree always comes to an end,  *)
(* and on a table that makes no row raise it returns.                      *)
(***************************************************************************)
StitchChain == Cardinality({ i \in 1..Len(stack) : stack[i].phase = "stitch" })

\* the outermost call has returned, or has raised at a row that makes it raise
Ended == bpc = "done" \/ (bpc = "crashed" /\ ~SoundTable(btable))

C10_TerminatesWithinBudget ==
  /\ [](StitchChain <= recurs)
  /\ <>Ended

\* a page that links to itself was built again inside its own build and
\* the outermost call returned
C10_Witness ==
  /\ bpc = "done" /\ recurs = 2
  /\ Len(fetched) >= 2
  /\ fetched[1].href.page = "P1" /\ fetched[1].depth = 0
  /\ fetched[2].href.page = "P1" /\ fetched[2].depth = 1

(***************************************************************************)
(* C5.  Without index the locator returns exactly the clade tables that    *)
(* have no clade table among their ancestors, in document order.           *)
(***************************************************************************)
C5_LocateTopLevel ==
  (lpc = "done" /\ tree_index = None) => lresult = TopLevel(soup)

(***************************************************************************)
(* C6.  With a '#k' suffix the locator returns only the k-th top-level     *)
(* clade table (1-based), nothing when there is no such table, and never   *)
(* raises.                                                                 *)
(***************************************************************************)
C6_LocateIndexed ==
  /\ lpc # "crashed"
  /\ (lpc = "done" /\ tree_index # None)
       => lresult = IF tree_index \in 1..Len(TopLevel(soup))
                    THEN <<TopLevel(soup)[tree_index]>>
                    ELSE <<>>

(***************************************************************************)
(* C9.  find_matching_node returns the node that comes first in            *)
(* breadth-first order among those whose name contains a pattern, letter   *)
(* case ignored, and returns None exactly when there is no such node.      *)
(***************************************************************************)
MatchingPaths ==
  { p \in AllPaths(mtree, <<>>) :
      \E k \in 1..Len(mpatterns) : Contains(NodeAt(mtree, p).name, mpatterns[k]) }

C9_FirstBreadthFirstMatch ==
  mpc = "done"
    => /\ mresult = <<>> <=> MatchingPaths = {}
       /\ mresult # <<>>
            => /\ mresult[1] \in MatchingPaths
               /\ \A q \in MatchingPaths :
                     q = mresult[1] \/ BreadthFirstBefore(mresult[1], q)

\* a shallower match was returned although a deeper match stands to its left
C9_Witness ==
  /\ mpc = "done" /\ mresult # <<>>
  /\ \E q \in MatchingPaths :
        /\ Len(q) > Len(mresult[1])
        /\ LexLess(q, mresult[1])

====
